---- MODULE Spec2Model ----
(***************************************************************************)
(* State-machine model of the sense repository:                            *)
(*   tools/sense_studio/project_tags.py  - tag create / remove / edit      *)
(*   examples/run_volleyball_classifier.py - checkpoint merge, label map,  *)
(*                                           start-up order, rep counters  *)
(***************************************************************************)
EXTENDS Integers, Sequences, FiniteSets, TLC

\* ------------------------------------------------------------------ bounds
MaxIndex == 2          \* largest tag id the model allocates or addresses
MaxClassTags == 2      \* longest tag list of one class
MaxWeight == 2         \* weights are 1..MaxWeight
MaxLabelIndex == 2     \* label indices of the metadata file are 0..MaxLabelIndex
MaxFrames == 2         \* frames the frame source delivers at most
MaxSteps == 5          \* probability vectors fed to a rep counter

\* ------------------------------------------------------- project_tags.py
VARIABLES
  config,      \* the stored project configuration document
  pre,         \* the stored configuration before the last request
  req,         \* the last request: [op, tag_idx, status]
  everKeys     \* every id that was a key of project_tags before the last request

tagVars == <<config, pre, req, everKeys>>

TagNames == {"a", "b"}
ClassLabels == {"c1", "c2"}
TagArgs == 1..MaxIndex          \* <int:tag_idx> of the routes
NoReq == [op |-> "none", tag_idx |-> 0, status |-> "none"]

Range(s) == {s[i] : i \in DOMAIN s}

\* dict item assignment d[k] = v (insert or overwrite)
dict_set(d, k, v) == [x \in DOMAIN d \cup {k} |-> IF x = k THEN v ELSE d[x]]
\* del d[k] for a key that is present
dict_del(d, k) == [x \in DOMAIN d \ {k} |-> d[x]]
\* list.remove(x): drops the first occurrence of x
list_remove(s, x) ==
  LET i == CHOOSE n \in DOMAIN s : s[n] = x /\ \A m \in 1..(n - 1) : s[m] # x
  IN  SubSeq(s, 1, i - 1) \o SubSeq(s, i + 1, Len(s))

\* project_utils.load_project_config / write_project_config: the document is
\* read back as it was written (integer tag ids, lists of tag ids)
load_project_config(stored) == stored
write_project_config(stored, cfg) == cfg

\* faulty variant of create_tag: allocates after the highest key still present
create_tag_maxkey(cfg, tag_name) ==
  LET keys == DOMAIN cfg.project_tags
      top == IF keys = {} THEN 0 ELSE CHOOSE k \in keys : \A j \in keys : j <= k
      new_tag_index == top + 1
  IN  [cfg EXCEPT !.project_tags = dict_set(@, new_tag_index, tag_name),
                  !.max_tag_index = new_tag_index]

\* create_tag, lines 18-26: the in-memory config handed to write_project_config
create_tag(cfg, tag_name) ==
  LET new_tag_index == cfg.max_tag_index + 1
  IN  [cfg EXCEPT !.project_tags = dict_set(@, new_tag_index, tag_name),
                  !.max_tag_index = new_tag_index]

\* faulty variant of remove_tag: project_tags.pop(tag_idx, None), never raises
remove_tag_pop(cfg, tag_idx) ==
  [status |-> "redirect",
   config |-> [cfg EXCEPT
     !.project_tags = [x \in DOMAIN @ \ {tag_idx} |-> @[x]],
     !.classes = [c \in DOMAIN @ |->
                    IF tag_idx \in Range(@[c]) THEN list_remove(@[c], tag_idx)
                    ELSE @[c]]]]

\* faulty variant of remove_tag: the loop over the classes is missing
remove_tag_nocascade(cfg, tag_idx) ==
  IF tag_idx \notin DOMAIN cfg.project_tags
  THEN [status |-> "KeyError", config |-> cfg]
  ELSE [status |-> "redirect",
        config |-> [cfg EXCEPT !.project_tags = dict_del(@, tag_idx)]]

\* remove_tag, lines 34-45: del raises KeyError before anything is written
remove_tag(cfg, tag_idx) ==
  IF tag_idx \notin DOMAIN cfg.project_tags
  THEN [status |-> "KeyError", config |-> cfg]
  ELSE [status |-> "redirect",
        config |-> [cfg EXCEPT
          !.project_tags = dict_del(@, tag_idx),
          !.classes = [c \in DOMAIN @ |->
                         IF tag_idx \in Range(@[c]) THEN list_remove(@[c], tag_idx)
                         ELSE @[c]]]]

\* edit_tag, lines 54-61: item assignment, whether or not tag_idx is a key
edit_tag(cfg, tag_idx, new_tag_name) ==
  [cfg EXCEPT !.project_tags = dict_set(@, tag_idx, new_tag_name)]

\* the class editor of the tagging tool: puts a tag id into a class's tag set
assign_tag(cfg, class_label, tag_idx) ==
  [cfg EXCEPT !.classes[class_label] = Append(@, tag_idx)]

TagsInit ==
  /\ config = [project_tags |-> <<>>, max_tag_index |-> 0,
               classes |-> [c \in ClassLabels |-> <<>>]]
  /\ pre = config
  /\ req = NoReq
  /\ everKeys = {}

Served(op, tag_idx, status) ==
  /\ pre' = config
  /\ req' = [op |-> op, tag_idx |-> tag_idx, status |-> status]
  /\ everKeys' = everKeys \cup DOMAIN config.project_tags

CreateTag ==
  \E tag_name \in TagNames :
    /\ config.max_tag_index < MaxIndex
    /\ LET cfg == create_tag(load_project_config(config), tag_name)
       IN  /\ config' = write_project_config(config, cfg)
           /\ Served("create", cfg.max_tag_index, "redirect")

RemoveTag ==
  \E tag_idx \in TagArgs :
    LET r == remove_tag(load_project_config(config), tag_idx)
    IN  /\ config' = IF r.status = "redirect"
                     THEN write_project_config(config, r.config)
                     ELSE config
        /\ Served("remove", tag_idx, r.status)

EditTag ==
  \E tag_idx \in TagArgs, new_tag_name \in TagNames :
    /\ config' = write_project_config(
                   config, edit_tag(load_project_config(config), tag_idx, new_tag_name))
    /\ Served("edit", tag_idx, "redirect")

AssignTag ==
  \E class_label \in ClassLabels, tag_idx \in 1..MaxIndex :
    /\ Len(config.classes[class_label]) < MaxClassTags
    /\ tag_idx \notin Range(config.classes[class_label])
    /\ config' = write_project_config(
                   config, assign_tag(load_project_config(config), class_label, tag_idx))
    /\ Served("assign", tag_idx, "redirect")

\* ------------------------------------------ two create_tag requests at once
VARIABLES
  rpc,         \* each request's position in create_tag
  rcfg,        \* each request's in-memory config
  rname,       \* each request's newTagName
  rid          \* each request's new_tag_index (0 before line 22)

concVars == <<rpc, rcfg, rname, rid>>

Requests == {1, 2}

ConcIdle ==
  /\ rpc = [r \in Requests |-> "idle"]
  /\ rcfg = [r \in Requests |-> config]
  /\ rname = [r \in Requests |-> "a"]
  /\ rid = [r \in Requests |-> 0]

\* stored configurations that create_tag and remove_tag requests leave behind
StoredConfigs ==
  UNION {{[project_tags |-> f, max_tag_index |-> n,
           classes |-> [c \in ClassLabels |-> <<>>]] :
            f \in UNION {[S -> TagNames] : S \in SUBSET (1..n)}} : n \in 0..MaxIndex}

ConcInit ==
  /\ config \in StoredConfigs
  /\ pre = config
  /\ req = NoReq
  /\ everKeys = {}
  /\ rpc = [r \in Requests |-> "start"]
  /\ rcfg = [r \in Requests |-> config]
  /\ rname \in [Requests -> TagNames]
  /\ rid = [r \in Requests |-> 0]

\* line 18
Load(r) ==
  /\ rpc[r] = "start"
  /\ rcfg' = [rcfg EXCEPT ![r] = load_project_config(config)]
  /\ rpc' = [rpc EXCEPT ![r] = "loaded"]
  /\ UNCHANGED <<tagVars, rname, rid>>

\* lines 21-24
Update(r) ==
  /\ rpc[r] = "loaded"
  /\ rcfg' = [rcfg EXCEPT ![r] = create_tag(rcfg[r], rname[r])]
  /\ rid' = [rid EXCEPT ![r] = rcfg'[r].max_tag_index]
  /\ rpc' = [rpc EXCEPT ![r] = "updated"]
  /\ UNCHANGED <<tagVars, rname>>

\* line 26
Write(r) ==
  /\ rpc[r] = "updated"
  /\ config' = write_project_config(config, rcfg[r])
  /\ rpc' = [rpc EXCEPT ![r] = "done"]
  /\ UNCHANGED <<pre, req, everKeys, rcfg, rname, rid>>

\* ------------------------- run_volleyball_classifier.py: checkpoint merge
VARIABLES
  mpc,                      \* position in lines 45-53
  checkpoint,               \* backbone weight map
  checkpoint_classifier,    \* classifier weight map
  name_finetuned_layers,    \* keys the for loop has still to visit
  backbone0,                \* the backbone weight map as loaded
  classifier0               \* the classifier weight map as loaded

mergeVars == <<mpc, checkpoint, checkpoint_classifier, name_finetuned_layers,
               backbone0, classifier0>>

LayerNames == {"layer1", "layer2", "head"}
Weights == 1..MaxWeight
WeightMaps == UNION {[S -> Weights] : S \in SUBSET LayerNames}

MergeIdle ==
  /\ mpc = "idle"
  /\ checkpoint = <<>>
  /\ checkpoint_classifier = <<>>
  /\ name_finetuned_layers = {}
  /\ backbone0 = <<>>
  /\ classifier0 = <<>>

\* lines 45 and 48: engine.load_weights returns the two weight maps
MergeInit ==
  /\ mpc = "loaded"
  /\ checkpoint \in WeightMaps
  /\ checkpoint_classifier \in WeightMaps
  /\ name_finetuned_layers = {}
  /\ backbone0 = checkpoint
  /\ classifier0 = checkpoint_classifier

\* line 50
finetuned(ck, clf) == DOMAIN ck \cap DOMAIN clf

\* faulty variant of line 52: checkpoint[key] = checkpoint_classifier[key]
merge_key_nopop(ck, clf, key) ==
  [checkpoint |-> dict_set(ck, key, clf[key]), checkpoint_classifier |-> clf]

\* line 52: checkpoint[key] = checkpoint_classifier.pop(key)
merge_key(ck, clf, key) ==
  [checkpoint |-> dict_set(ck, key, clf[key]),
   checkpoint_classifier |-> dict_del(clf, key)]

Intersect ==
  /\ mpc = "loaded"
  /\ name_finetuned_layers' = finetuned(checkpoint, checkpoint_classifier)
  /\ mpc' = "loop"
  /\ UNCHANGED <<checkpoint, checkpoint_classifier, backbone0, classifier0>>

MergeKey ==
  /\ mpc = "loop"
  /\ \E key \in name_finetuned_layers :
       LET m == merge_key(checkpoint, checkpoint_classifier, key)
       IN  /\ checkpoint' = m.checkpoint
           /\ checkpoint_classifier' = m.checkpoint_classifier
           /\ name_finetuned_layers' = name_finetuned_layers \ {key}
  /\ UNCHANGED <<mpc, backbone0, classifier0>>

\* line 53: the loop is over, the backbone state dict is loaded
LoadStateDict ==
  /\ mpc = "loop"
  /\ name_finetuned_layers = {}
  /\ mpc' = "merged"
  /\ UNCHANGED <<checkpoint, checkpoint_classifier, name_finetuned_layers,
                 backbone0, classifier0>>

\* ------------------------------ run_volleyball_classifier.py: the label map
VARIABLES
  lpc,          \* position in lines 56-61
  label_file,   \* label2int.json: its (label, index) members in file order
  class2int,    \* json.load of the file
  INT2LAB,      \* line 58
  num_out       \* line 61

labelVars == <<lpc, label_file, class2int, INT2LAB, num_out>>

Labels == {"forearm_passing_position_1", "forearm_passing_position_2",
           "overhead_passing_position_1"}
LabelIndices == 0..MaxLabelIndex

\* JSON objects of label -> index, as the list of their members
LabelFiles ==
  {f \in UNION {[1..n -> Labels \X LabelIndices] : n \in 0..Cardinality(Labels)} :
     \A i, j \in DOMAIN f : f[i][1] = f[j][1] => i = j}

LabelIdle ==
  /\ lpc = "idle"
  /\ label_file = <<>>
  /\ class2int = <<>>
  /\ INT2LAB = <<>>
  /\ num_out = 0

LabelInit ==
  /\ lpc = "start"
  /\ label_file \in LabelFiles
  /\ class2int = <<>>
  /\ INT2LAB = <<>>
  /\ num_out = 0

\* line 57: json.load builds the dict from the members
json_load(f) ==
  [l \in {f[i][1] : i \in DOMAIN f} |-> f[CHOOSE i \in DOMAIN f : f[i][1] = l][2]]

\* faulty variant of line 58: the first member with a value wins
invert_first(f) ==
  [v \in {f[i][2] : i \in DOMAIN f} |->
     f[CHOOSE i \in DOMAIN f : f[i][2] = v /\ \A j \in DOMAIN f : f[j][2] = v => i <= j][1]]

\* line 58: {value: key for key, value in class2int.items()}; items() follows the
\* file order and a later member overwrites an earlier one with the same value
invert(f) ==
  [v \in {f[i][2] : i \in DOMAIN f} |->
     f[CHOOSE i \in DOMAIN f : f[i][2] = v /\ \A j \in DOMAIN f : f[j][2] = v => j <= i][1]]

JsonLoad ==
  /\ lpc = "start"
  /\ class2int' = json_load(label_file)
  /\ lpc' = "loaded"
  /\ UNCHANGED <<label_file, INT2LAB, num_out>>

Invert ==
  /\ lpc = "loaded"
  /\ INT2LAB' = invert(label_file)
  /\ lpc' = "inverted"
  /\ UNCHANGED <<label_file, class2int, num_out>>

\* line 61: num_out=len(INT2LAB)
Dimension ==
  /\ lpc = "inverted"
  /\ num_out' = Cardinality(DOMAIN INT2LAB)
  /\ lpc' = "done"
  /\ UNCHANGED <<label_file, class2int, INT2LAB>>

\* ------------------- run_volleyball_classifier.py: the run, start to exit
VARIABLES
  pc,                       \* index of the script step to run next
  run_status,               \* "running", "failed" (uncaught exception) or "exited"
  args_custom_classifier,   \* --custom_classifier was given
  backbone_file,            \* the backbone checkpoint: "ok", "missing", "malformed"
  classifier_file,          \* classifier.checkpoint
  label_json,               \* label2int.json
  backbone_shapes_ok,       \* the merged weights fit StridedInflatedEfficientNet
  classifier_shapes_ok,     \* the classifier weights fit LogisticRegression
  capture_ok,               \* the camera or input file can be opened
  controller_constructed,
  ctrl,                     \* Controller: none, starting, streaming, stopping, stopped
  loop_pc,                  \* position in one streaming iteration
  cancel_requested,
  cancel_observed,
  cancel_at,                \* loop position at which the interrupt arrived
  frames_admitted,
  source_opens, sink_opens, source_releases, sink_closes

inputVars == <<args_custom_classifier, backbone_file, classifier_file, label_json,
               backbone_shapes_ok, classifier_shapes_ok, capture_ok>>
ctrlVars == <<ctrl, loop_pc, cancel_requested, cancel_observed, cancel_at,
              frames_admitted,
              source_opens, sink_opens, source_releases, sink_closes>>
runVars == <<pc, run_status, inputVars, controller_constructed, ctrlVars>>

FileStates == {"ok", "missing", "malformed"}

\* faulty order: the Controller is built and run before the label file is read
ScriptControllerFirst ==
  <<"docopt", "load_backbone", "load_classifier", "merge", "backbone_state_dict",
    "controller", "run_inference", "label_json", "classifier_state_dict", "pipe">>

\* the statements of __main__ in program order
Script ==
  <<"docopt", "load_backbone", "load_classifier", "merge", "backbone_state_dict",
    "label_json", "classifier_state_dict", "pipe", "controller", "run_inference">>

\* whether a statement raises (docopt exits) on these inputs
raises(step) ==
  CASE step = "docopt" -> ~args_custom_classifier
    [] step = "load_backbone" -> backbone_file # "ok"
    [] step = "load_classifier" -> classifier_file # "ok"
    [] step = "backbone_state_dict" -> ~backbone_shapes_ok
    [] step = "label_json" -> label_json # "ok"
    [] step = "classifier_state_dict" -> ~classifier_shapes_ok
    [] OTHER -> FALSE

RunIdle ==
  /\ pc = 0
  /\ run_status = "idle"
  /\ args_custom_classifier = FALSE
  /\ backbone_file = "ok"
  /\ classifier_file = "ok"
  /\ label_json = "ok"
  /\ backbone_shapes_ok = TRUE
  /\ classifier_shapes_ok = TRUE
  /\ capture_ok = TRUE
  /\ controller_constructed = FALSE
  /\ ctrl = "none"
  /\ loop_pc = "none"
  /\ cancel_requested = FALSE
  /\ cancel_observed = FALSE
  /\ cancel_at = "none"
  /\ frames_admitted = 0
  /\ source_opens = 0
  /\ sink_opens = 0
  /\ source_releases = 0
  /\ sink_closes = 0

RunInit ==
  /\ pc = 1
  /\ run_status = "running"
  /\ args_custom_classifier \in BOOLEAN
  /\ backbone_file \in FileStates
  /\ classifier_file \in FileStates
  /\ label_json \in FileStates
  /\ backbone_shapes_ok \in BOOLEAN
  /\ classifier_shapes_ok \in BOOLEAN
  /\ capture_ok \in BOOLEAN
  /\ controller_constructed = FALSE
  /\ ctrl = "none"
  /\ loop_pc = "none"
  /\ cancel_requested = FALSE
  /\ cancel_observed = FALSE
  /\ cancel_at = "none"
  /\ frames_admitted = 0
  /\ source_opens = 0
  /\ sink_opens = 0
  /\ source_releases = 0
  /\ sink_closes = 0

AtStep(step) == run_status = "running" /\ pc \in DOMAIN Script /\ Script[pc] = step

\* a loading or assembling statement completes
ScriptStep ==
  /\ run_status = "running"
  /\ pc \in DOMAIN Script
  /\ Script[pc] \notin {"controller", "run_inference"}
  /\ ~raises(Script[pc])
  /\ pc' = pc + 1
  /\ UNCHANGED <<run_status, inputVars, controller_constructed, ctrlVars>>

\* a statement raises: the uncaught exception ends the run there
ScriptFail ==
  /\ run_status = "running"
  /\ pc \in DOMAIN Script
  /\ raises(Script[pc])
  /\ run_status' = "failed"
  /\ UNCHANGED <<pc, inputVars, controller_constructed, ctrlVars>>

\* lines 144-153
ConstructController ==
  /\ AtStep("controller")
  /\ controller_constructed' = TRUE
  /\ pc' = pc + 1
  /\ UNCHANGED <<run_status, inputVars, ctrlVars>>

\* line 154
RunInference ==
  /\ AtStep("run_inference")
  /\ controller_constructed
  /\ ctrl = "none"
  /\ ctrl' = "starting"
  /\ UNCHANGED <<pc, run_status, inputVars, controller_constructed, loop_pc,
                 cancel_requested, cancel_observed, cancel_at, frames_admitted,
                 source_opens, sink_opens, source_releases, sink_closes>>

\* run_inference returned
ScriptReturn ==
  /\ AtStep("run_inference")
  /\ ctrl = "stopped"
  /\ pc' = pc + 1
  /\ UNCHANGED <<run_status, inputVars, controller_constructed, ctrlVars>>

ScriptExit ==
  /\ run_status = "running"
  /\ pc = Len(Script) + 1
  /\ run_status' = "exited"
  /\ UNCHANGED <<pc, inputVars, controller_constructed, ctrlVars>>

\* Controller, starting: the frame source and the output sink are opened; a
\* capture failure is fatal and the run never streams
ControllerStart ==
  /\ ctrl = "starting"
  /\ IF capture_ok
     THEN /\ source_opens' = source_opens + 1
          /\ sink_opens' = sink_opens + 1
          /\ ctrl' = "streaming"
          /\ loop_pc' = "check"
     ELSE /\ ctrl' = "stopped"
          /\ UNCHANGED <<source_opens, sink_opens, loop_pc>>
  /\ UNCHANGED <<pc, run_status, inputVars, controller_constructed,
                 cancel_requested, cancel_observed, cancel_at, frames_admitted,
                 source_releases, sink_closes>>

\* the user interrupts, at any point of streaming
RequestCancel ==
  /\ ctrl = "streaming"
  /\ ~cancel_requested
  /\ cancel_requested' = TRUE
  /\ cancel_at' = loop_pc
  /\ UNCHANGED <<pc, run_status, inputVars, controller_constructed, ctrl, loop_pc,
                 cancel_observed, frames_admitted,
                 source_opens, sink_opens, source_releases, sink_closes>>

\* faulty variant of on_cancel: the loop is left without the stopping phase
on_cancel_skip_stopping == "stopped"

\* where the loop goes when the check at the top of an iteration sees the request
on_cancel == "stopping"

\* top of a streaming iteration: the cancellation check
CheckCancel ==
  /\ ctrl = "streaming"
  /\ loop_pc = "check"
  /\ IF cancel_requested
     THEN /\ cancel_observed' = TRUE
          /\ ctrl' = on_cancel
          /\ loop_pc' = "none"
     ELSE /\ loop_pc' = "pull"
          /\ UNCHANGED <<cancel_observed, ctrl>>
  /\ UNCHANGED <<pc, run_status, inputVars, controller_constructed,
                 cancel_requested, cancel_at, frames_admitted,
                 source_opens, sink_opens, source_releases, sink_closes>>

\* the next frame is pulled and admitted
PullFrame ==
  /\ ctrl = "streaming"
  /\ loop_pc = "pull"
  /\ frames_admitted < MaxFrames
  /\ frames_admitted' = frames_admitted + 1
  /\ loop_pc' = "infer"
  /\ UNCHANGED <<pc, run_status, inputVars, controller_constructed, ctrl,
                 cancel_requested, cancel_observed, cancel_at,
                 source_opens, sink_opens, source_releases, sink_closes>>

\* no frame is available: end of stream
EndOfStream ==
  /\ ctrl = "streaming"
  /\ loop_pc = "pull"
  /\ ctrl' = "stopping"
  /\ loop_pc' = "none"
  /\ UNCHANGED <<pc, run_status, inputVars, controller_constructed,
                 cancel_requested, cancel_observed, cancel_at, frames_admitted,
                 source_opens, sink_opens, source_releases, sink_closes>>

\* the in-flight inference call completes
Infer ==
  /\ ctrl = "streaming"
  /\ loop_pc = "infer"
  /\ loop_pc' = "output"
  /\ UNCHANGED <<pc, run_status, inputVars, controller_constructed, ctrl,
                 cancel_requested, cancel_observed, cancel_at, frames_admitted,
                 source_opens, sink_opens, source_releases, sink_closes>>

\* post-processing, display and output of the frame
Output ==
  /\ ctrl = "streaming"
  /\ loop_pc = "output"
  /\ loop_pc' = "check"
  /\ UNCHANGED <<pc, run_status, inputVars, controller_constructed, ctrl,
                 cancel_requested, cancel_observed, cancel_at, frames_admitted,
                 source_opens, sink_opens, source_releases, sink_closes>>

\* stopping: the sink is flushed and closed, the source released
ControllerStop ==
  /\ ctrl = "stopping"
  /\ sink_closes' = sink_closes + 1
  /\ source_releases' = source_releases + 1
  /\ ctrl' = "stopped"
  /\ UNCHANGED <<pc, run_status, inputVars, controller_constructed, loop_pc,
                 cancel_requested, cancel_observed, cancel_at, frames_admitted,
                 source_opens, sink_opens>>

\* what the running process does by itself (everything but the user's interrupt)
ProgramStep ==
  \/ ScriptStep \/ ScriptFail \/ ConstructController \/ RunInference
  \/ ScriptReturn \/ ScriptExit \/ ControllerStart \/ CheckCancel \/ PullFrame
  \/ EndOfStream \/ Infer \/ Output \/ ControllerStop

\* ------------------------------------ TwoPositionsRepCounter (lines 96-125)
VARIABLES
  inst,      \* the counter instance that is driven
  cstate,    \* "waiting_pos0" or "armed_pos0"
  count,
  hist       \* per vector fed: whether L0 reached T0, whether L1 reached T1

counterVars == <<inst, cstate, count, hist>>

\* the five instances of the post-processor list, thresholds in hundredths
RepCounters ==
  <<[out_key |-> "forearm passes", threshold0 |-> 10, threshold1 |-> 5],
    [out_key |-> "overhead passes", threshold0 |-> 18, threshold1 |-> 18],
    [out_key |-> "pokeys", threshold0 |-> 10, threshold1 |-> 10],
    [out_key |-> "one arm passes", threshold0 |-> 20, threshold1 |-> 20],
    [out_key |-> "bounces", threshold0 |-> 10, threshold1 |-> 10]>>

\* probabilities of the two tracked labels, in hundredths
Levels == {0, 5, 10, 18, 20}

CounterIdle ==
  /\ inst = 0
  /\ cstate = "idle"
  /\ count = 0
  /\ hist = <<>>

CounterInit ==
  /\ inst \in DOMAIN RepCounters
  /\ cstate = "waiting_pos0"
  /\ count = 0
  /\ hist = <<>>

\* faulty variant of postprocess: an L1 crossing counts whatever came before
postprocess_unordered(cfg, st, n, p0, p1) ==
  IF p1 >= cfg.threshold1
  THEN [cstate |-> "waiting_pos0", count |-> n + 1]
  ELSE IF p0 >= cfg.threshold0
       THEN [cstate |-> "armed_pos0", count |-> n]
       ELSE [cstate |-> st, count |-> n]

\* one call of the counter on the probabilities p0 of L0 and p1 of L1
postprocess(cfg, st, n, p0, p1) ==
  IF st = "waiting_pos0"
  THEN IF p0 >= cfg.threshold0
       THEN [cstate |-> "armed_pos0", count |-> n]
       ELSE [cstate |-> st, count |-> n]
  ELSE IF p1 >= cfg.threshold1
       THEN [cstate |-> "waiting_pos0", count |-> n + 1]
       ELSE [cstate |-> st, count |-> n]

Apply ==
  /\ Len(hist) < MaxSteps
  /\ \E p0 \in Levels, p1 \in Levels :
       LET cfg == RepCounters[inst]
           r == postprocess(cfg, cstate, count, p0, p1)
       IN  /\ cstate' = r.cstate
           /\ count' = r.count
           /\ hist' = Append(hist, <<p0 >= cfg.threshold0, p1 >= cfg.threshold1>>)
  /\ UNCHANGED inst

vars == <<tagVars, concVars, mergeVars, labelVars, runVars, counterVars>>

CreateRemoveNext ==
  \/ CreateTag /\ UNCHANGED <<concVars, mergeVars, labelVars, runVars, counterVars>>
  \/ RemoveTag /\ UNCHANGED <<concVars, mergeVars, labelVars, runVars, counterVars>>
  \/ AssignTag /\ UNCHANGED <<concVars, mergeVars, labelVars, runVars, counterVars>>
CreateRemoveInit == TagsInit /\ ConcIdle /\ MergeIdle /\ LabelIdle /\ RunIdle /\ CounterIdle
CreateRemoveSpec ==
  /\ CreateRemoveInit
  /\ [][CreateRemoveNext]_vars

TagsNext ==
  \/ CreateTag /\ UNCHANGED <<concVars, mergeVars, labelVars, runVars, counterVars>>
  \/ RemoveTag /\ UNCHANGED <<concVars, mergeVars, labelVars, runVars, counterVars>>
  \/ EditTag /\ UNCHANGED <<concVars, mergeVars, labelVars, runVars, counterVars>>
  \/ AssignTag /\ UNCHANGED <<concVars, mergeVars, labelVars, runVars, counterVars>>
TagsSpecInit == TagsInit /\ ConcIdle /\ MergeIdle /\ LabelIdle /\ RunIdle /\ CounterIdle
TagsSpec ==
  /\ TagsSpecInit
  /\ [][TagsNext]_vars

ConcNext ==
  \/ (\E r \in Requests : Load(r))
       /\ UNCHANGED <<mergeVars, labelVars, runVars, counterVars>>
  \/ (\E r \in Requests : Update(r))
       /\ UNCHANGED <<mergeVars, labelVars, runVars, counterVars>>
  \/ (\E r \in Requests : Write(r))
       /\ UNCHANGED <<mergeVars, labelVars, runVars, counterVars>>
ConcSpecInit == ConcInit /\ MergeIdle /\ LabelIdle /\ RunIdle /\ CounterIdle
ConcSpec ==
  /\ ConcSpecInit
  /\ [][ConcNext]_vars

MergeNext ==
  \/ Intersect /\ UNCHANGED <<tagVars, concVars, labelVars, runVars, counterVars>>
  \/ MergeKey /\ UNCHANGED <<tagVars, concVars, labelVars, runVars, counterVars>>
  \/ LoadStateDict /\ UNCHANGED <<tagVars, concVars, labelVars, runVars, counterVars>>
MergeSpecInit == TagsInit /\ ConcIdle /\ MergeInit /\ LabelIdle /\ RunIdle /\ CounterIdle
MergeSpec ==
  /\ MergeSpecInit
  /\ [][MergeNext]_vars

LabelNext ==
  \/ JsonLoad /\ UNCHANGED <<tagVars, concVars, mergeVars, runVars, counterVars>>
  \/ Invert /\ UNCHANGED <<tagVars, concVars, mergeVars, runVars, counterVars>>
  \/ Dimension /\ UNCHANGED <<tagVars, concVars, mergeVars, runVars, counterVars>>
LabelSpecInit == TagsInit /\ ConcIdle /\ MergeIdle /\ LabelInit /\ RunIdle /\ CounterIdle
LabelSpec ==
  /\ LabelSpecInit
  /\ [][LabelNext]_vars

OtherThanRun == <<tagVars, concVars, mergeVars, labelVars, counterVars>>
RunProgram == ProgramStep /\ UNCHANGED OtherThanRun
RunNext ==
  \/ ScriptStep /\ UNCHANGED OtherThanRun
  \/ ScriptFail /\ UNCHANGED OtherThanRun
  \/ ConstructController /\ UNCHANGED OtherThanRun
  \/ RunInference /\ UNCHANGED OtherThanRun
  \/ ScriptReturn /\ UNCHANGED OtherThanRun
  \/ ScriptExit /\ UNCHANGED OtherThanRun
  \/ ControllerStart /\ UNCHANGED OtherThanRun
  \/ CheckCancel /\ UNCHANGED OtherThanRun
  \/ PullFrame /\ UNCHANGED OtherThanRun
  \/ EndOfStream /\ UNCHANGED OtherThanRun
  \/ Infer /\ UNCHANGED OtherThanRun
  \/ Output /\ UNCHANGED OtherThanRun
  \/ ControllerStop /\ UNCHANGED OtherThanRun
  \/ RequestCancel /\ UNCHANGED OtherThanRun
\* the process keeps running while it has a step to take; the user need not
\* interrupt and the stream need not deliver a frame
RunSpecInit == TagsInit /\ ConcIdle /\ MergeIdle /\ LabelIdle /\ RunInit /\ CounterIdle
RunSpec ==
  /\ RunSpecInit
  /\ [][RunNext]_vars
  /\ WF_vars(RunProgram)

CounterNext ==
  Apply /\ UNCHANGED <<tagVars, concVars, mergeVars, labelVars, runVars>>
CounterSpecInit == TagsInit /\ ConcIdle /\ MergeIdle /\ LabelIdle /\ RunIdle /\ CounterInit
CounterSpec ==
  /\ CounterSpecInit
  /\ [][CounterNext]_vars

\* ------------------------------------------------------------------ claims
IsKey(cfg, k) == k \in DOMAIN cfg.project_tags
Without(s, x) == LET keep(y) == y # x IN SelectSeq(s, keep)

\* C2: with create_tag and remove_tag requests only, max_tag_index never
\* decreases, and a create_tag stores its tag under (previous max_tag_index) + 1,
\* sets max_tag_index to that id, and that id was never a key before.
C2_IdsNeverReused ==
  /\ config.max_tag_index >= pre.max_tag_index
  /\ req.op = "create" =>
       /\ DOMAIN config.project_tags =
            DOMAIN pre.project_tags \cup {pre.max_tag_index + 1}
       /\ config.max_tag_index = pre.max_tag_index + 1
       /\ (pre.max_tag_index + 1) \notin everKeys

\* a create_tag served after the tag with the highest id was removed
C2_Witness ==
  /\ req.op = "create"
  /\ pre.max_tag_index >= 1
  /\ pre.max_tag_index \in everKeys
  /\ ~IsKey(pre, pre.max_tag_index)

\* C3: remove_tag of an existing tag takes the id out of project_tags and out of
\* every class's tag list and leaves every other tag, every other member of
\* each list and max_tag_index as they were.
C3_CascadeDelete ==
  (req.op = "remove" /\ IsKey(pre, req.tag_idx)) =>
     /\ req.status = "redirect"
     /\ ~IsKey(config, req.tag_idx)
     /\ \A c \in ClassLabels : req.tag_idx \notin Range(config.classes[c])
     /\ DOMAIN config.project_tags = DOMAIN pre.project_tags \ {req.tag_idx}
     /\ \A k \in DOMAIN config.project_tags : config.project_tags[k] = pre.project_tags[k]
     /\ \A c \in ClassLabels : config.classes[c] = Without(pre.classes[c], req.tag_idx)
     /\ config.max_tag_index = pre.max_tag_index

\* the removed tag sat in both classes, one of which held another tag as well
C3_Witness ==
  /\ req.op = "remove"
  /\ IsKey(pre, req.tag_idx)
  /\ \A c \in ClassLabels : req.tag_idx \in Range(pre.classes[c])
  /\ \E c \in ClassLabels : Len(pre.classes[c]) >= 2
  /\ DOMAIN config.project_tags # {}

\* C9: every key of project_tags is at most max_tag_index, and a create_tag
\* never writes to an id that already holds a tag.
C9_KeysBoundedByMax ==
  /\ \A k \in DOMAIN config.project_tags : k <= config.max_tag_index
  /\ req.op = "create" => ~IsKey(pre, req.tag_idx)

\* C10: remove_tag of an id that is no key of project_tags raises at the del
\* and leaves the stored configuration exactly as it was.
C10_RemoveMissingWritesNothing ==
  (req.op = "remove" /\ ~IsKey(pre, req.tag_idx)) =>
     /\ req.status = "KeyError"
     /\ config = pre

\* the missing id is still a member of a class's tag list
C10_Witness ==
  /\ req.op = "remove"
  /\ ~IsKey(pre, req.tag_idx)
  /\ \E c \in ClassLabels : req.tag_idx \in Range(pre.classes[c])

\* C8: two interleaved create_tag requests allocate distinct ids, both tags are
\* stored, and max_tag_index is the larger id.
C8_ConcurrentCreatesDistinct ==
  (\A r \in Requests : rpc[r] = "done") =>
     /\ rid[1] # rid[2]
     /\ \A r \in Requests :
          IsKey(config, rid[r]) /\ config.project_tags[rid[r]] = rname[r]
     /\ config.max_tag_index = IF rid[1] > rid[2] THEN rid[1] ELSE rid[2]

\* C1: after the merge loop the backbone map has the key set it was loaded with,
\* holding the classifier's value for every common key and its own value
\* elsewhere; the classifier map keeps exactly its keys that the backbone lacks,
\* with their values; the two key sets are disjoint.
C1_Merge ==
  mpc = "merged" =>
     /\ DOMAIN checkpoint = DOMAIN backbone0
     /\ \A k \in DOMAIN checkpoint :
          checkpoint[k] = IF k \in DOMAIN classifier0 THEN classifier0[k] ELSE backbone0[k]
     /\ DOMAIN checkpoint_classifier = DOMAIN classifier0 \ DOMAIN backbone0
     /\ \A k \in DOMAIN checkpoint_classifier : checkpoint_classifier[k] = classifier0[k]
     /\ DOMAIN checkpoint \cap DOMAIN checkpoint_classifier = {}

\* the spec's example: one backbone-only key, one common key whose values
\* differ, one classifier-only key
C1_Witness ==
  /\ mpc = "merged"
  /\ DOMAIN backbone0 = {"layer1", "layer2"}
  /\ DOMAIN classifier0 = {"layer2", "head"}
  /\ backbone0["layer2"] # classifier0["layer2"]

Injective(d) == \A a, b \in DOMAIN d : d[a] = d[b] => a = b
Indices(d) == {d[l] : l \in DOMAIN d}

\* C4 as stated: INT2LAB[class2int[l]] = l for every label l, and INT2LAB has
\* as many entries as class2int has labels.
C4_Bijection ==
  lpc = "done" =>
     /\ \A l \in DOMAIN class2int : INT2LAB[class2int[l]] = l
     /\ num_out = Cardinality(DOMAIN class2int)

\* C4 amended: INT2LAB has one entry per distinct index of class2int, each
\* naming the last label of the file that class2int maps to that index; it is
\* the inverse of class2int, with as many entries, exactly when no two labels
\* share an index.
C4_InverseOfIndices ==
  lpc = "done" =>
     /\ DOMAIN INT2LAB = Indices(class2int)
     /\ num_out = Cardinality(Indices(class2int))
     /\ \A v \in DOMAIN INT2LAB :
          \E i \in DOMAIN label_file :
             /\ label_file[i] = <<INT2LAB[v], v>>
             /\ \A j \in DOMAIN label_file : label_file[j][2] = v => j <= i
     /\ \A l \in DOMAIN class2int : class2int[INT2LAB[class2int[l]]] = class2int[l]
     /\ Injective(class2int) <=>
          /\ \A l \in DOMAIN class2int : INT2LAB[class2int[l]] = l
          /\ num_out = Cardinality(DOMAIN class2int)

\* a file of three labels with three indices, inverted
C4_Witness ==
  /\ lpc = "done"
  /\ Cardinality(DOMAIN class2int) = 3
  /\ Injective(class2int)
  /\ num_out = 3

LoadingFails ==
  \/ backbone_file # "ok"
  \/ classifier_file # "ok"
  \/ label_json # "ok"
  \/ ~backbone_shapes_ok
  \/ ~classifier_shapes_ok

\* C5: in a run where a checkpoint, the label metadata file or a state dict
\* fails to load, or where --custom_classifier is missing, the Controller is
\* never constructed and no frame source or output sink is ever opened.
C5_LoadFailureBeforeController ==
  (LoadingFails \/ ~args_custom_classifier) =>
     /\ ~controller_constructed
     /\ ctrl = "none"
     /\ source_opens = 0
     /\ sink_opens = 0
     /\ run_status # "exited"

\* a run that got as far as the label metadata file and failed there
C5_Witness ==
  /\ run_status = "failed"
  /\ Script[pc] = "label_json"
  /\ label_json = "missing"
  /\ ~controller_constructed

\* C7: once cancellation is requested the run reaches stopped with the sink
\* closed once and the source released once; neither is ever closed twice; and
\* no frame is admitted after the check that observed the request.
C7_CancellationSafety ==
  /\ [](cancel_requested =>
          <>(ctrl = "stopped" /\ sink_closes = 1 /\ source_releases = 1))
  /\ [](sink_closes <= 1 /\ source_releases <= 1)
  /\ [][cancel_observed => frames_admitted' = frames_admitted]_vars

\* cancellation was requested while an inference call was in flight and the run
\* has stopped
C7_Witness ==
  /\ ctrl = "stopped"
  /\ cancel_observed
  /\ cancel_at = "infer"
  /\ frames_admitted >= 1
  /\ frames_admitted < MaxFrames
  /\ sink_closes = 1
  /\ source_releases = 1

\* the largest k for which hist holds k L0-crossings each followed by a later
\* L1-crossing, one pair after the other
Chains(h, k) ==
  \E S \in SUBSET DOMAIN h :
     /\ Cardinality(S) = 2 * k
     /\ \A x \in S :
          IF Cardinality({y \in S : y <= x}) % 2 = 1 THEN h[x][1] ELSE h[x][2]
CompletedSequences(h) ==
  CHOOSE k \in 0..Len(h) : Chains(h, k) /\ ~Chains(h, k + 1)

\* C6: the count goes up by one exactly on a vector with L1 at or above T1 fed
\* while the counter is armed, which returns it to waiting; so the count is the
\* number of completed L0-then-L1 sequences: 0 while L0 never crossed, 1 after
\* one sequence, 2 after two.
C6_CountsOrderedSequences ==
  /\ [][Len(hist') = Len(hist) + 1 =>
          IF cstate = "armed_pos0" /\ hist'[Len(hist')][2]
          THEN count' = count + 1 /\ cstate' = "waiting_pos0"
          ELSE count' = count]_vars
  /\ []((\A i \in DOMAIN hist : ~hist[i][1]) => count = 0)
  /\ [](count = CompletedSequences(hist))

\* two L0-then-L1 sequences were fed, after a first L1 crossing that came too early
C6_Witness ==
  /\ count = 2
  /\ Len(hist) = 5
  /\ hist[1] = <<FALSE, TRUE>>
====
